---- MODULE Spec2Model ----
(***************************************************************************)
(* The Grievance Log: the desktop shell (src/app.py, a Tk application with *)
(* one background worker thread per network call and main-thread callbacks *)
(* scheduled with after(0, ...)) and the web shell (src/app_streamlit.py,   *)
(* one full script run per user interaction), both against one remote      *)
(* spreadsheet API that answers a read with its rows and appends on write.  *)
(***************************************************************************)
EXTENDS Naturals, Integers, Sequences, FiniteSets, TLC

(***************************************************************************)
(* Bounds of the model.                                                    *)
(***************************************************************************)
MaxOps == 2
MaxRows == 3

(***************************************************************************)
(* Text.  A text is a sequence of characters; " " stands for any           *)
(* whitespace character and "a" for any other one.                         *)
(***************************************************************************)
\* The texts a user enters: nothing, blanks only, a word, a word between blanks.
Texts == {<<>>, <<" ", " ">>, <<"a">>, <<" ", "a", " ">>}

\* The placeholder shown in the empty input widget (not a text a user types).
PLACEHOLDER == <<"T", "y", "p", "e">>

RECURSIVE lstrip(_)
lstrip(s) == IF s # <<>> /\ Head(s) = " " THEN lstrip(Tail(s)) ELSE s

RECURSIVE rstrip(_)
rstrip(s) ==
    IF s # <<>> /\ s[Len(s)] = " " THEN rstrip(SubSeq(s, 1, Len(s) - 1)) ELSE s

\* str.strip()
strip(s) == rstrip(lstrip(s))

(***************************************************************************)
(* Timestamps.  A timestamp string is modelled by its lexical layout and   *)
(* its two leading date fields (the year and the time of day are the same  *)
(* in every sample):                                                       *)
(*   dashT   "YYYY-x-yTHH:MM:SS"   (x month, y day), off: a "+00:00" suffix *)
(*   dashSp  "YYYY-x-y HH:MM:SS"   (x month, y day)                         *)
(*   slash   "x/y/YYYY HH:MM:SS"                                            *)
(*   junk    anything else, the empty string included                       *)
(***************************************************************************)
MonthsPerYear == 12
DaysPerMonth == 31

FieldVals == {1, 2, MonthsPerYear + 1}

Timestamps ==
    [lay : {"dashT"}, x : FieldVals, y : FieldVals, off : BOOLEAN]
    \cup [lay : {"dashSp", "slash"}, x : FieldVals, y : FieldVals, off : {FALSE}]
    \cup [lay : {"junk"}, x : {1}, y : {1}, off : {FALSE}]

\* A parse that fails (the exception a parser raises, or _safe_parse_dt's None).
None == [ok |-> FALSE, val |-> 0, aware |-> FALSE]

\* A datetime: val orders the naive (or the aware) values among themselves.
DateTime(month, day, aware) == [ok |-> TRUE, val |-> month * 100 + day, aware |-> aware]

\* datetime.min, below every sample's value.
datetime_min == [ok |-> TRUE, val |-> 0, aware |-> FALSE]

ValidDate(month, day) == month \in 1..MonthsPerYear /\ day \in 1..DaysPerMonth

\* datetime.fromisoformat(s): either separator, an optional UTC offset.
fromisoformat(s) ==
    IF s.lay \in {"dashT", "dashSp"} /\ ValidDate(s.x, s.y)
    THEN DateTime(s.x, s.y, s.off)
    ELSE None

\* datetime.strptime(s, fmt) for the three formats of _safe_parse_dt.
strptime(s, fmt) ==
    CASE fmt = "%Y-%m-%d %H:%M:%S" ->
            IF s.lay = "dashSp" /\ ~s.off /\ ValidDate(s.x, s.y)
            THEN DateTime(s.x, s.y, FALSE) ELSE None
      [] fmt = "%m/%d/%Y %H:%M:%S" ->
            IF s.lay = "slash" /\ ValidDate(s.x, s.y)
            THEN DateTime(s.x, s.y, FALSE) ELSE None
      [] fmt = "%d/%m/%Y %H:%M:%S" ->
            IF s.lay = "slash" /\ ValidDate(s.y, s.x)
            THEN DateTime(s.y, s.x, FALSE) ELSE None

Formats == <<"%Y-%m-%d %H:%M:%S", "%m/%d/%Y %H:%M:%S", "%d/%m/%Y %H:%M:%S">>

RECURSIVE try_formats(_, _)
try_formats(s, i) ==
    IF i > Len(Formats) THEN None
    ELSE IF strptime(s, Formats[i]).ok THEN strptime(s, Formats[i])
    ELSE try_formats(s, i + 1)

safe_parse_dt(s) == IF fromisoformat(s).ok THEN fromisoformat(s) ELSE try_formats(s, 1)

\* The desktop shell's sort key: the parsed timestamp, or datetime.min.
sort_key(row) ==
    IF safe_parse_dt(row.Timestamp).ok THEN safe_parse_dt(row.Timestamp) ELSE datetime_min

\* The web shell's sort key: ISO only, or datetime.min.
parse_ts(row) ==
    IF fromisoformat(row.Timestamp).ok THEN fromisoformat(row.Timestamp) ELSE datetime_min

(***************************************************************************)
(* sorted(rows, key=..., reverse=True): stable, descending.  Comparing an  *)
(* offset-aware datetime with a naive one raises TypeError, and a sort has *)
(* to compare some such pair as soon as both kinds are among the keys.     *)
(***************************************************************************)
\* The keys sorted computes, one for each row: desktop and web.
sort_keys(rows) == [i \in 1..Len(rows) |-> sort_key(rows[i])]

parse_ts_keys(rows) == [i \in 1..Len(rows) |-> parse_ts(rows[i])]

SortRaises(keys) == \E i, j \in 1..Len(keys) : keys[i].aware # keys[j].aware

\* Insert index i behind every index whose key is >= keys[i].
RECURSIVE InsertDesc(_, _, _)
InsertDesc(order, i, keys) ==
    IF order = <<>> THEN <<i>>
    ELSE IF keys[Head(order)].val >= keys[i].val
         THEN <<Head(order)>> \o InsertDesc(Tail(order), i, keys)
         ELSE <<i>> \o order

\* The indices 1..n in stable descending order of their keys.
RECURSIVE OrderDesc(_, _)
OrderDesc(n, keys) ==
    IF n = 0 THEN <<>> ELSE InsertDesc(OrderDesc(n - 1, keys), n, keys)

SortedDesc(rows, keys) ==
    [p \in 1..Len(rows) |-> rows[OrderDesc(Len(rows), keys)[p]]]

\* The desktop worker's sort: on any exception the rows stay as received.
data_sorted(data) ==
    IF SortRaises(sort_keys(data)) THEN data ELSE SortedDesc(data, sort_keys(data))

\* The web shell's sort: an exception is not caught.
sort_rows_desc(rows) ==
    IF SortRaises(parse_ts_keys(rows))
    THEN [raised |-> TRUE, rows |-> <<>>]
    ELSE [raised |-> FALSE, rows |-> SortedDesc(rows, parse_ts_keys(rows))]

(***************************************************************************)
(* State.                                                                  *)
(*   shell       which program runs: "desktop", "web" (or "sort": the sort  *)
(*               functions applied to a drawn record set)                   *)
(*   api_url     whether an API URL was resolved                            *)
(*   server      the rows the remote API holds (it appends on a write)      *)
(*   reads       the number of read requests issued so far                  *)
(*   writes      the number of write requests issued so far                 *)
(*   lastWrite   the body of the last write request, and the input text of  *)
(*               the submit it was built from                               *)
(*   accepted    the number of submits that passed validation               *)
(*   acked       the server rows (by position) whose write was acknowledged *)
(*   ops         the number of operations the user has started              *)
(*   shown       what the last step surfaced to the user (dialogs, alerts)  *)
(* Desktop shell:                                                          *)
(*   content     the text held by the input widget                          *)
(*   placeholder_active, focused                                            *)
(*   submit_enabled, refresh_enabled   the state of the two buttons         *)
(*   tree        the displayed history, rows of <<grievance, status>>       *)
(*   workers     the background threads that have not returned yet (a bag)  *)
(*   queue       the after(0, ...) callbacks not run yet, in FIFO order     *)
(*   startup     the after(100, ...) startup load is still pending          *)
(* Web shell:                                                              *)
(*   thought     the text in the browser's text area                        *)
(*   page        what the last script run rendered                          *)
(* Sort:                                                                   *)
(*   sortIn, sortOut                                                        *)
(***************************************************************************)
VARIABLES shell, api_url, server, reads, writes, lastWrite, accepted, acked, ops, shown,
          content, placeholder_active, focused, submit_enabled, refresh_enabled,
          tree, workers, queue, startup,
          thought, page, sortIn, sortOut

common == <<shell, api_url>>
net == <<server, reads, writes, lastWrite, accepted, acked>>
input == <<content, placeholder_active, focused>>
buttons == <<submit_enabled, refresh_enabled>>
threads == <<workers, queue, startup>>
desktop == <<input, buttons, tree, threads>>
web == <<thought, page>>
sorting == <<sortIn, sortOut>>
vars == <<common, net, ops, shown, desktop, web, sorting>>

\* The page: whether the last run rendered the form, the Refresh button and the
\* history section (a run that stops renders nothing below the stop), and the
\* history it rendered; read: what the run's read request came back with.
Page(form, refresh, rendered, history) ==
    [form |-> form, refresh |-> refresh, rendered |-> rendered, history |-> history,
     read |-> "none"]

NoPage == Page(FALSE, FALSE, FALSE, <<>>)

NoSort == [shell |-> "none", raised |-> FALSE, rows |-> <<>>]

NoBody == [Timestamp |-> [lay |-> "junk", x |-> 1, y |-> 1, off |-> FALSE],
           Grievance |-> <<>>, Status |-> <<>>]

\* The state after construction, before the program of `shell` takes a step.
Fresh(sh, url) ==
    /\ shell = sh
    /\ api_url = url
    /\ server = <<>>
    /\ reads = 0
    /\ writes = 0
    /\ lastWrite = [body |-> NoBody, raw |-> <<>>]
    /\ accepted = 0
    /\ acked = {}
    /\ ops = 0
    /\ shown = {}
    \* _build_ui: the empty widget gets the placeholder; both buttons are normal
    /\ content = PLACEHOLDER
    /\ placeholder_active = TRUE
    /\ focused = FALSE
    /\ submit_enabled = TRUE
    /\ refresh_enabled = TRUE
    /\ tree = <<>>
    /\ workers = {}
    /\ queue = <<>>
    \* __init__: the startup load is scheduled only with an API URL
    /\ startup = (sh = "desktop" /\ url)
    /\ thought = <<>>
    /\ page = NoPage
    /\ sortOut = NoSort

Init == \E sh \in {"desktop", "web"}, url \in BOOLEAN : Fresh(sh, url) /\ sortIn = <<>>

(***************************************************************************)
(* The remote API.                                                         *)
(***************************************************************************)
\* datetime.now().isoformat(timespec="seconds"): the local clock shows day d
isoformat_now(d) == [lay |-> "dashT", x |-> 1, y |-> d, off |-> FALSE]

\* The record a submit posts.
payload(text, d) == [Timestamp |-> isoformat_now(d), Grievance |-> text, Status |-> <<>>]

\* What a read request can come back with: the rows, a body that is no list,
\* or a failure (transport, timeout, non-2xx status, undecodable body).
ReadOutcomes == {"list", "notlist", "fail"}

\* What a write request can come back with: success, a failure that never
\* reached the sheet, or a failure (timeout) after the sheet took the row.
WriteOutcomes == {"ok", "fail", "fail_landed"}

(***************************************************************************)
(* Desktop shell: threads and callbacks.                                   *)
(***************************************************************************)
\* A thread.  data and n: a fetch's decoded rows and how many rows the sheet
\* held when it answered.  body and raw: a submit's record and the input text
\* it was built from.  trig: the fetch was started by a submit's success
\* callback.
Worker(kind, body, raw, trig) ==
    [kind |-> kind, pc |-> "start", res |-> "none", data |-> <<>>, n |-> 0,
     body |-> body, raw |-> raw, trig |-> trig, copy |-> 0]

\* An after(0, ...) callback.  rows and n: the rows to display and the number
\* of rows the sheet held when it answered with them (-1: its answer was no
\* list).  bound: the `e` a showerror lambda reads is still bound.
Callback(cb, rows, n) == [cb |-> cb, rows |-> rows, n |-> n, bound |-> TRUE]

\* Threads in the same state are told apart by a copy number 1..k only.
CopiesIn(w, ws) == Cardinality({v \in ws : [v EXCEPT !.copy = 0] = w})

Running == {[v EXCEPT !.copy = 0] : v \in workers}

Without(w) == workers \ {[w EXCEPT !.copy = CopiesIn(w, workers)]}

Start(w) == workers \cup {[w EXCEPT !.copy = CopiesIn(w, workers) + 1]}

Move(w, v) == Without(w) \cup {[v EXCEPT !.copy = CopiesIn(v, Without(w)) + 1]}

Return(w) == Without(w)

(***************************************************************************)
(* Desktop shell: fetch.                                                   *)
(***************************************************************************)
\* The fetch without the guard on the API URL.
fetch_and_display_grievances_unguarded(trig) ==
    /\ refresh_enabled' = FALSE
    /\ workers' = Start(Worker("fetch", NoBody, <<>>, trig))

\* fetch_and_display_grievances()
fetch_and_display_grievances(trig) ==
    IF ~api_url
    THEN UNCHANGED <<refresh_enabled, workers>>
    ELSE /\ refresh_enabled' = FALSE
         /\ workers' = Start(Worker("fetch", NoBody, <<>>, trig))

\* The operations the user (or the startup load) starts are bounded; the
\* refresh a successful submit triggers is not.
UserOp == ops < MaxOps /\ ops' = ops + 1

\* The local clock: a day passes with every operation the user starts.
now == accepted + 1

\* The after(100, ...) of __init__ fires.
StartupLoad ==
    /\ shell = "desktop"
    /\ startup
    /\ UserOp
    /\ startup' = FALSE
    /\ fetch_and_display_grievances(FALSE)
    /\ shown' = {}
    /\ UNCHANGED <<common, net, input, submit_enabled, tree, queue, web, sorting>>

\* The Refresh button: a disabled button ignores the click.
ClickRefresh ==
    /\ shell = "desktop"
    /\ refresh_enabled
    /\ UserOp
    /\ fetch_and_display_grievances(FALSE)
    /\ shown' = {}
    /\ UNCHANGED <<common, net, input, submit_enabled, tree, queue, startup, web, sorting>>

\* <F5>, bound on the window.
PressF5 ==
    /\ shell = "desktop"
    /\ UserOp
    /\ fetch_and_display_grievances(FALSE)
    /\ shown' = {}
    /\ UNCHANGED <<common, net, input, submit_enabled, tree, queue, startup, web, sorting>>

\* worker: requests.get ... resp.json() ... isinstance(data, list)
FetchRequest(w) ==
    /\ w.kind = "fetch" /\ w.pc = "start"
    /\ \E out \in ReadOutcomes :
         workers' = Move(w, [w EXCEPT !.pc = "got", !.res = out,
                                      !.data = IF out = "list" THEN server ELSE <<>>,
                                      !.n = IF out = "list" THEN Len(server) ELSE -1])
    /\ reads' = reads + 1
    /\ shown' = {}
    /\ UNCHANGED <<common, server, writes, lastWrite, accepted, acked, ops, input,
                   buttons, tree, queue, startup, web, sorting>>

\* worker, no exception: the sort, after(0, populate), after(0, enable), return.
\* (The callbacks of one thread run in the order it scheduled them; the model
\* schedules those of a branch that reads nothing in between in one step.)
FetchReturn(w) ==
    /\ w.kind = "fetch" /\ w.pc = "got" /\ w.res # "fail"
    /\ queue' = queue \o <<Callback("populate_tree", data_sorted(w.data), w.n),
                           Callback("enable_refresh", <<>>, 0)>>
    /\ workers' = Return(w)
    /\ shown' = {}
    /\ UNCHANGED <<common, net, ops, input, buttons, tree, startup, web, sorting>>

\* worker, except branch: after(0, showerror) while `e` is bound
FailAfter(w) ==
    /\ w.res = "fail" /\ w.pc = "got"
    /\ queue' = Append(queue, Callback("showerror_" \o w.kind, <<>>, 0))
    /\ workers' = Move(w, [w EXCEPT !.pc = "after1"])
    /\ shown' = {}
    /\ UNCHANGED <<common, net, ops, input, buttons, tree, startup, web, sorting>>

\* The queue positions of the showerror callbacks of `kind` whose `e` is bound.
BoundAt(kind) ==
    {i \in 1..Len(queue) : queue[i].cb = "showerror_" \o kind /\ queue[i].bound}

\* The threads of `kind` that are inside their except block.
InExcept(kind) == {v \in workers : v.kind = kind /\ v.pc = "after1"}

\* worker, except branch: after(0, enable) and the return.  Leaving the except
\* block unbinds `e`: the thread's showerror callback, if it has not run yet,
\* will raise NameError instead of opening the dialog.
FailReturn(w) ==
    /\ w.res = "fail" /\ w.pc = "after1"
    /\ LET enable == Callback("enable_" \o (IF w.kind = "fetch" THEN "refresh" ELSE "submit"),
                              <<>>, 0)
       IN \/ \E i \in BoundAt(w.kind) :
                queue' = Append([queue EXCEPT ![i].bound = FALSE], enable)
          \/ /\ Cardinality(BoundAt(w.kind)) < Cardinality(InExcept(w.kind))
             /\ queue' = Append(queue, enable)
    /\ workers' = Return(w)
    /\ shown' = {}
    /\ UNCHANGED <<common, net, ops, input, buttons, tree, startup, web, sorting>>

\* The tree filled without deleting the rows it holds.
populate_tree_undeleted(rows) ==
    tree \o [i \in 1..Len(rows) |-> <<strip(rows[i].Grievance), strip(rows[i].Status)>>]

\* _populate_tree(rows)
populate_tree(rows) ==
    [i \in 1..Len(rows) |-> <<strip(rows[i].Grievance), strip(rows[i].Status)>>]

(***************************************************************************)
(* Desktop shell: the input widget.                                        *)
(***************************************************************************)
\* _on_input_focus_in / _clear_placeholder
FocusIn ==
    /\ shell = "desktop"
    /\ ~focused
    /\ focused' = TRUE
    /\ IF placeholder_active
       THEN placeholder_active' = FALSE /\ content' = <<>>
       ELSE UNCHANGED <<placeholder_active, content>>
    /\ shown' = {}
    /\ UNCHANGED <<common, net, ops, buttons, tree, threads, web, sorting>>

\* _on_input_focus_out / _ensure_placeholder
FocusOut ==
    /\ shell = "desktop"
    /\ focused
    /\ focused' = FALSE
    /\ IF strip(content) = <<>>
       THEN placeholder_active' = TRUE /\ content' = PLACEHOLDER
       ELSE UNCHANGED <<placeholder_active, content>>
    /\ shown' = {}
    /\ UNCHANGED <<common, net, ops, buttons, tree, threads, web, sorting>>

\* The user edits the text in the focused widget.
Type(t) ==
    /\ shell = "desktop"
    /\ focused
    /\ t # content
    /\ content' = t
    /\ shown' = {}
    /\ UNCHANGED <<common, net, ops, placeholder_active, focused, buttons, tree, threads,
                   web, sorting>>

\* _get_input_text()
get_input_text == IF placeholder_active THEN <<>> ELSE content

(***************************************************************************)
(* Desktop shell: submit.                                                  *)
(***************************************************************************)
\* The validation without the trim: only the empty text counts as empty.
is_empty_input_untrimmed(raw) == raw = <<>>

\* The validation of a submit: nothing is left of the input once trimmed.
is_empty_input(raw) == strip(raw) = <<>>

\* The payload built from the input as typed, without the trim.
submit_payload_untrimmed(raw, d) == payload(raw, d)

\* The record built from the input of an accepted submit.
submit_payload(raw, d) == payload(strip(raw), d)

\* submit_grievance()
submit_grievance ==
    IF ~api_url
    THEN /\ shown' = {"Missing API URL"}
         /\ UNCHANGED <<accepted, submit_enabled, workers, ops>>
    ELSE IF is_empty_input(get_input_text)
    THEN /\ shown' = {"Empty Thought"}
         /\ UNCHANGED <<accepted, submit_enabled, workers, ops>>
    ELSE /\ UserOp
         /\ workers' = Start(Worker("submit", submit_payload(get_input_text, now),
                                    get_input_text, FALSE))
         /\ accepted' = accepted + 1
         /\ submit_enabled' = FALSE
         /\ shown' = {}

\* The Submit button: a disabled button ignores the click.
ClickSubmit ==
    /\ shell = "desktop"
    /\ submit_enabled
    /\ submit_grievance
    /\ UNCHANGED <<common, server, reads, writes, lastWrite, acked, input,
                   refresh_enabled, tree, queue, startup, web, sorting>>

\* <Control-Return>, bound on the input widget: _submit_via_shortcut()
CtrlReturn ==
    /\ shell = "desktop"
    /\ focused
    /\ submit_grievance
    /\ UNCHANGED <<common, server, reads, writes, lastWrite, acked, input,
                   refresh_enabled, tree, queue, startup, web, sorting>>

\* The success callbacks without the one that enables the submit button again.
SuccessCallbacks_unenabled ==
    <<Callback("showinfo", <<>>, 0), Callback("delete_input", <<>>, 0),
      Callback("fetch", <<>>, 0)>>

\* The callbacks the worker schedules after a successful write, in order.
SuccessCallbacks ==
    <<Callback("showinfo", <<>>, 0), Callback("delete_input", <<>>, 0),
      Callback("fetch", <<>>, 0), Callback("enable_submit", <<>>, 0)>>

\* worker: requests.post ... raise_for_status(); on success the four
\* after(0, ...) calls and the return
SubmitRequest(w) ==
    /\ w.kind = "submit" /\ w.pc = "start"
    /\ writes' = writes + 1
    /\ lastWrite' = [body |-> w.body, raw |-> w.raw]
    /\ \E out \in WriteOutcomes :
         /\ server' = IF out = "fail" THEN server ELSE Append(server, w.body)
         /\ IF out = "ok"
            THEN /\ acked' = acked \cup {Len(server) + 1}
                 /\ queue' = queue \o SuccessCallbacks
                 /\ workers' = Return(w)
            ELSE /\ acked' = acked
                 /\ queue' = queue
                 /\ workers' = Move(w, [w EXCEPT !.pc = "got", !.res = "fail"])
    /\ shown' = {}
    /\ UNCHANGED <<common, reads, accepted, ops, input, buttons, tree, startup,
                   web, sorting>>

(***************************************************************************)
(* Desktop shell: the main thread runs the oldest after(0, ...) callback.  *)
(***************************************************************************)
RunCallback ==
    /\ shell = "desktop"
    /\ queue # <<>>
    /\ queue' = Tail(queue)
    /\ LET c == Head(queue) IN
       CASE c.cb = "showerror_fetch" ->
              /\ shown' = IF c.bound THEN {"Fetch Failed"} ELSE {}
              /\ UNCHANGED <<input, buttons, tree, workers>>
         [] c.cb = "populate_tree" ->
              /\ tree' = populate_tree(c.rows)
              /\ shown' = {}
              /\ UNCHANGED <<input, buttons, workers>>
         [] c.cb = "enable_refresh" ->
              /\ refresh_enabled' = TRUE
              /\ shown' = {}
              /\ UNCHANGED <<input, submit_enabled, tree, workers>>
         [] c.cb = "showerror_submit" ->
              /\ shown' = IF c.bound THEN {"Submit Failed"} ELSE {}
              /\ UNCHANGED <<input, buttons, tree, workers>>
         [] c.cb = "enable_submit" ->
              /\ submit_enabled' = TRUE
              /\ shown' = {}
              /\ UNCHANGED <<input, refresh_enabled, tree, workers>>
         [] c.cb = "showinfo" ->
              /\ shown' = {"Submitted"}
              /\ UNCHANGED <<input, buttons, tree, workers>>
         [] c.cb = "delete_input" ->
              /\ content' = <<>>
              /\ shown' = {}
              /\ UNCHANGED <<placeholder_active, focused, buttons, tree, workers>>
         [] c.cb = "fetch" ->
              /\ fetch_and_display_grievances(TRUE)
              /\ shown' = {}
              /\ UNCHANGED <<input, submit_enabled, tree>>
    /\ UNCHANGED <<common, net, ops, startup, web, sorting>>

DesktopWorker ==
    /\ shell = "desktop"
    /\ \E w \in Running :
         \/ FetchRequest(w)
         \/ FetchReturn(w)
         \/ SubmitRequest(w)
         \/ FailAfter(w)
         \/ FailReturn(w)

DesktopNext ==
    \/ StartupLoad
    \/ ClickRefresh
    \/ PressF5
    \/ FocusIn
    \/ FocusOut
    \/ \E t \in Texts : Type(t)
    \/ ClickSubmit
    \/ CtrlReturn
    \/ DesktopWorker
    \/ RunCallback

(***************************************************************************)
(* Web shell: main() runs once, top to bottom, per user interaction, with  *)
(* the network calls made in line; st.rerun() starts it over.              *)
(***************************************************************************)
\* fetch_grievances(api_url): a body that is no list reads as no rows
fetch_grievances(out, rows) == IF out = "list" THEN rows ELSE <<>>

\* The History section of main(): what it alerts and the page it leaves.
History(out, rows) ==
    IF out = "fail"
    THEN [shown |-> {"Couldn't retrieve history"}, page |-> Page(TRUE, TRUE, FALSE, <<>>)]
    ELSE LET sorted == sort_rows_desc(fetch_grievances(out, rows))
         IN IF sorted.raised
            THEN [shown |-> {"TypeError"}, page |-> Page(TRUE, TRUE, FALSE, <<>>)]
            ELSE [shown |-> IF sorted.rows = <<>> THEN {"Nothing to complain about"} ELSE {},
                  page |-> Page(TRUE, TRUE, TRUE, populate_tree(sorted.rows))]

\* main() from the History section on, after `alerts` were rendered above it
RunHistory(alerts) ==
    /\ reads' = reads + 1
    /\ \E out \in ReadOutcomes :
         /\ shown' = alerts \cup History(out, server').shown
         /\ page' = [History(out, server').page EXCEPT !.read = out]

\* main() with no form submitted: a page load, or the rerun the Refresh button
\* asks for
WebRun ==
    IF ~api_url
    THEN /\ shown' = {"Missing API URL"}
         /\ page' = NoPage
         /\ UNCHANGED <<server, reads>>
    ELSE /\ server' = server
         /\ RunHistory({})

\* The browser opens (or reloads) the page.
WebLoad ==
    /\ shell = "web"
    /\ UserOp
    /\ thought' = <<>>
    /\ WebRun
    /\ UNCHANGED <<common, writes, lastWrite, accepted, acked, desktop, sorting>>

\* The Refresh button: st.rerun()
WebRefresh ==
    /\ shell = "web"
    /\ page.refresh
    /\ UserOp
    /\ thought' = thought
    /\ WebRun
    /\ UNCHANGED <<common, writes, lastWrite, accepted, acked, desktop, sorting>>

\* The user edits the text area.
WebType(t) ==
    /\ shell = "web"
    /\ page.form
    /\ t # thought
    /\ thought' = t
    /\ UNCHANGED <<common, net, ops, shown, desktop, page, sorting>>

\* The argument main() passes to submit_grievance(api_url, text).
web_text(raw) == strip(raw)

\* "Submit Thought" of the form.  clear_on_submit=True: the browser resets the
\* text area when the form is submitted, whatever the run then does.
WebSubmit ==
    /\ shell = "web"
    /\ page.form
    /\ UserOp
    /\ thought' = <<>>
    /\ IF is_empty_input(thought)
       THEN \* st.warning, and main() goes on to the History section
            /\ UNCHANGED <<server, writes, lastWrite, accepted, acked>>
            /\ RunHistory({"Please write something"})
       ELSE /\ accepted' = accepted + 1
            /\ writes' = writes + 1
            /\ lastWrite' = [body |-> payload(web_text(thought), now), raw |-> thought]
            /\ \E out \in WriteOutcomes :
                 /\ server' = IF out = "fail" THEN server
                              ELSE Append(server, payload(web_text(thought), now))
                 /\ IF out = "ok"
                    THEN \* st.success, then st.rerun(): main() runs again
                         /\ acked' = acked \cup {Len(server) + 1}
                         /\ RunHistory({})
                    ELSE \* st.error, st.stop(): nothing below the form is rendered
                         /\ acked' = acked
                         /\ reads' = reads
                         /\ shown' = {"Couldn't submit"}
                         /\ page' = Page(TRUE, FALSE, FALSE, <<>>)
    /\ UNCHANGED <<common, desktop, sorting>>

WebNext ==
    \/ WebLoad
    \/ WebRefresh
    \/ \E t \in Texts : WebType(t)
    \/ WebSubmit

Next == DesktopNext \/ WebNext

Spec == Init /\ [][Next]_vars

(***************************************************************************)
(* The two sort functions applied to a record set a read may return.       *)
(***************************************************************************)
SortRows == {[Timestamp |-> ts, Grievance |-> <<"a">>, Status |-> <<>>] : ts \in Timestamps}

RecordSets == UNION {[1..n -> SortRows] : n \in 0..MaxRows}

SortInit == Fresh("sort", TRUE) /\ sortIn \in RecordSets

\* The desktop worker's sort (app.py, the second try block of worker)
SortDesktop ==
    /\ shell = "sort"
    /\ sortOut' = [shell |-> "desktop", raised |-> FALSE, rows |-> data_sorted(sortIn)]
    /\ UNCHANGED <<common, net, ops, shown, desktop, web, sortIn>>

\* The web shell's sort (app_streamlit.py, _sort_rows_desc)
SortWeb ==
    /\ shell = "sort"
    /\ sortOut' = [shell |-> "web", raised |-> sort_rows_desc(sortIn).raised,
                   rows |-> sort_rows_desc(sortIn).rows]
    /\ UNCHANGED <<common, net, ops, shown, desktop, web, sortIn>>

SortNext == SortDesktop \/ SortWeb

SortSpec == SortInit /\ [][SortNext]_vars

(***************************************************************************)
(* Scheduling.  The worker threads are daemon threads the interpreter keeps *)
(* switching to, and their requests return within the timeout=15 they are  *)
(* given; the Tk main loop runs the pending after(0, ...) callbacks in     *)
(* order.  Neither a worker's next step nor the oldest callback is ever    *)
(* disabled by another step, so weak fairness is what the scheduling gives. *)
(***************************************************************************)
LiveSpec == Spec /\ WF_vars(DesktopWorker) /\ WF_vars(RunCallback)

(***************************************************************************)
(* Properties.                                                             *)
(***************************************************************************)
Desktop == shell = "desktop"

InFlightWrites == {w \in workers : w.kind = "submit" /\ w.pc = "start"}

InFlightFetches == {w \in workers : w.kind = "fetch" /\ w.pc \in {"start", "got"}}

\* The main thread runs the callback `cb`.
Runs(cb) == RunCallback /\ Head(queue).cb = cb

\* Only blanks (or nothing at all).
Blank(text) == \A i \in 1..Len(text) : text[i] = " "

\* t is raw without its leading and trailing blanks.
IsTrimOf(t, raw) ==
    /\ t = <<>> \/ (t[1] # " " /\ t[Len(t)] # " ")
    /\ \E i, j \in 0..Len(raw) :
         /\ i + Len(t) + j = Len(raw)
         /\ \A k \in 1..Len(raw) :
              IF k <= i \/ k > i + Len(t) THEN raw[k] = " " ELSE raw[k] = t[k - i]

\* C1: in the desktop shell the read of a submit's triggered refresh is issued
\* only after the write was acknowledged, and once the displayed history shows
\* an acknowledged item, no fetch whose response predates that item replaces it.
C1_NoStaleRefreshAfterSubmit ==
    [][Desktop =>
        /\ \A w \in workers' : w.trig => acked' # {}
        /\ ~(/\ Runs("populate_tree")
             /\ \E i \in acked : Len(tree) >= i /\ Head(queue).n \in 0..(i - 1))]_vars

\* C2: in the desktop shell at most one write request is in flight at any time,
\* and the submit button is disabled while one is.
C2_OneWriteInFlight ==
    Desktop =>
        /\ Cardinality(InFlightWrites) <= 1
        /\ InFlightWrites # {} => ~submit_enabled

\* C3: in the desktop shell the refresh button is disabled in every state in
\* which a read request is in flight.
C3_RefreshDisabledWhileFetching ==
    Desktop /\ InFlightFetches # {} => ~refresh_enabled

\* C4: in both front-ends a failed write shows an error, leaves the input text
\* as it was, triggers no read, and leaves the submit action available (desktop:
\* the button is enabled again by the worker's last callback).
C4_FailedWriteKeepsInput ==
    [][/\ WebSubmit /\ writes' = writes + 1 /\ acked' = acked =>
            /\ "Couldn't submit" \in shown'
            /\ thought' = thought
            /\ reads' = reads
            /\ page'.form
       /\ Runs("showerror_submit") => shown' = {"Submit Failed"} /\ content' = content
       /\ Runs("enable_submit") => submit_enabled' /\ content' = content
       /\ \A i \in 1..Len(queue') : queue'[i].cb = "fetch" => acked' # {}]_vars

\* C5, as claimed: in both front-ends a submit of empty or whitespace-only
\* input (desktop: also of the placeholder) issues no network request, shows
\* the validation warning, and leaves the submit action and the displayed
\* history as they were.
C5_EmptySubmitNoRequest ==
    [][/\ (ClickSubmit \/ CtrlReturn) /\ Blank(get_input_text) =>
            /\ shown' = {"Empty Thought"}
            /\ UNCHANGED <<net, workers, queue, buttons, tree>>
       /\ WebSubmit /\ Blank(thought) =>
            /\ "Please write something" \in shown'
            /\ UNCHANGED <<net, page>>]_vars

\* C5, amended: with an API URL configured, a submit of empty or
\* whitespace-only input (desktop: also of the placeholder) issues no write
\* request and shows the validation warning; in the desktop shell it issues no
\* request at all and leaves both buttons and the displayed history as they
\* were; in the web shell the same run goes on to the history read.
C5_EmptySubmitNoWrite ==
    [][/\ (ClickSubmit \/ CtrlReturn) /\ api_url /\ Blank(get_input_text) =>
            /\ shown' = {"Empty Thought"}
            /\ UNCHANGED <<net, workers, queue, buttons, tree>>
       /\ WebSubmit /\ Blank(thought) =>
            /\ "Please write something" \in shown'
            /\ UNCHANGED <<server, writes, lastWrite, accepted, acked>>
            /\ reads' = reads + 1
            /\ page'.form]_vars

\* A whitespace-only submit was just rejected with the warning.
C5_Witness ==
    /\ Desktop /\ shown = {"Empty Thought"}
    /\ ~placeholder_active /\ content # <<>> /\ Blank(content)

\* C6: every accepted submit issues exactly one write request, none is
\* repeated: the writes issued and the accepted submits still to be sent add up
\* to the accepted submits; the body of a write has the trimmed input as its
\* Grievance and an empty Status.
C6_OneWritePerAcceptedSubmit ==
    /\ accepted = writes + Cardinality(InFlightWrites)
    /\ \A w \in workers : w.kind = "submit" =>
         IsTrimOf(w.body.Grievance, w.raw) /\ w.body.Grievance # <<>> /\ w.body.Status = <<>>
    /\ writes > 0 =>
         /\ IsTrimOf(lastWrite.body.Grievance, lastWrite.raw)
         /\ lastWrite.body.Grievance # <<>>
         /\ lastWrite.body.Status = <<>>

\* In the desktop shell two submits were accepted and sent, the last one of a
\* padded text, and neither write succeeded.
C6_Witness ==
    /\ Desktop /\ accepted = 2 /\ writes = 2 /\ acked = {}
    /\ lastWrite.raw # lastWrite.body.Grievance

\* C7: in both front-ends a failed read surfaces an error and leaves the
\* displayed history as it was.
C7_FailedReadKeepsHistory ==
    [][/\ shell = "web" /\ reads' = reads + 1 /\ page'.read = "fail" =>
            /\ "Couldn't retrieve history" \in shown'
            /\ page'.rendered = page.rendered
            /\ page'.history = page.history
       /\ Runs("showerror_fetch") => shown' = {"Fetch Failed"} /\ tree' = tree]_vars

\* C8: a read answered with a body that is no list empties the displayed
\* history, shows no error, and the refresh action is available again (desktop:
\* the callback that enables the button follows the one that empties the tree).
C8_NonListReadsAsEmpty ==
    [][/\ Runs("populate_tree") /\ Head(queue).n = -1 =>
            /\ tree' = <<>>
            /\ shown' = {}
            /\ queue' # <<>> /\ Head(queue').cb = "enable_refresh"
       /\ Runs("enable_refresh") => refresh_enabled'
       /\ shell = "web" /\ reads' = reads + 1 /\ page'.read = "notlist" =>
            /\ page'.rendered /\ page'.history = <<>>
            /\ shown' \subseteq {"Nothing to complain about", "Please write something"}
            /\ page'.refresh]_vars

\* A non-list answer is about to replace a displayed history that has rows.
C8_Witness ==
    /\ Desktop /\ queue # <<>> /\ tree # <<>>
    /\ Head(queue).cb = "populate_tree" /\ Head(queue).n = -1

\* The timestamps of a record set carry no UTC offset.
NoOffsets(rows) == \A i \in 1..Len(rows) : ~rows[i].Timestamp.off

\* out holds the records of rows, each as often as rows does.
IsPermutation(out, rows) ==
    /\ Len(out) = Len(rows)
    /\ \A r \in SortRows :
         Cardinality({i \in 1..Len(out) : out[i] = r})
            = Cardinality({i \in 1..Len(rows) : rows[i] = r})

\* The timestamp parser of the shell that produced sortOut.
ParsedBy(sh, row) ==
    IF sh = "desktop" THEN safe_parse_dt(row.Timestamp) ELSE fromisoformat(row.Timestamp)

\* C9: for every record set the sort returns a permutation in which, of any two
\* records with parseable timestamps that can be compared, the one with the
\* later time comes first (equal times in either order).
C9_SortedDescending ==
    sortOut.shell # "none" =>
        /\ ~sortOut.raised
        /\ IsPermutation(sortOut.rows, sortIn)
        /\ \A p, q \in 1..Len(sortOut.rows) :
             LET a == ParsedBy(sortOut.shell, sortOut.rows[p])
                 b == ParsedBy(sortOut.shell, sortOut.rows[q])
             IN a.ok /\ b.ok /\ a.aware = b.aware /\ p < q => a.val >= b.val

\* C10: in both front-ends the timestamp is parsed by the four formats in
\* order, and (for record sets without UTC offsets) every record whose
\* timestamp matches none of them comes after every record whose timestamp
\* matches one.
C10_UnparseableLast ==
    sortOut.shell # "none" /\ NoOffsets(sortIn) =>
        \A p, q \in 1..Len(sortOut.rows) :
            /\ safe_parse_dt(sortOut.rows[p].Timestamp).ok
            /\ ~safe_parse_dt(sortOut.rows[q].Timestamp).ok
            => p < q

\* C11: with no API URL resolved no read and no write request is ever issued,
\* whatever the user does (startup load, Refresh, F5, Submit, Ctrl+Return): no
\* worker is started, no callback scheduled, no submit accepted; and the
\* process keeps running: the buttons stay enabled and the shell goes on
\* taking the user's actions.
C11_NoRequestsWithoutApiUrl ==
    ~api_url =>
        /\ reads = 0 /\ writes = 0 /\ accepted = 0
        /\ workers = {} /\ queue = <<>> /\ server = <<>>
        /\ Desktop => submit_enabled /\ refresh_enabled /\ ENABLED ClickSubmit
        /\ Desktop /\ ops < MaxOps => ENABLED PressF5 /\ ENABLED ClickRefresh
        /\ shell = "web" /\ ops < MaxOps => ENABLED WebLoad

\* With no API URL the user has refreshed as often as the bound allows, typed
\* a text and submitted it: the submit was answered with the missing-URL error.
C11_Witness ==
    /\ Desktop /\ ~api_url /\ ops = MaxOps
    /\ ~placeholder_active /\ content = <<"a">>
    /\ shown = {"Missing API URL"}

\* No call in flight, no callback pending, both buttons enabled.
Idle == workers = {} /\ queue = <<>> /\ submit_enabled /\ refresh_enabled

\* A callback `cb` is pending on the main thread.
Pending(cb) == \E i \in 1..Len(queue) : queue[i].cb = cb

\* C12: in the desktop shell, under fair scheduling of the workers and of the
\* main thread's callbacks, every state is followed by one with no call in
\* flight and both buttons enabled; and once a submit has succeeded (its
\* success callbacks are pending) the input is cleared and the triggered
\* history refresh is started.
C12_EventuallyIdle ==
    /\ Desktop ~> Idle
    /\ Pending("delete_input") ~> content = <<>>
    /\ Pending("fetch") ~> (\E w \in workers : w.kind = "fetch" /\ w.trig)

\* All is quiet again after a submit that succeeded and was displayed, with the
\* user's operations used up.
C12_Witness ==
    /\ Desktop /\ Idle /\ ops = MaxOps
    /\ acked # {} /\ tree # <<>> /\ content = <<>> /\ reads >= 1

====
